---- MODULE Spec2Model ----
(***************************************************************************)
(* Stock_Market_Trend_Analysis: the incremental sync controller            *)
(* (data/realtime_updater.py), the validation, cleaning and feature stage  *)
(* (data/data_cleaner.py), the label constructor and training entry        *)
(* (models/random_forest_predictor.py), the ARIMA order selector           *)
(* (models/arima_forecaster.py), the retrying command runner               *)
(* (robust_data_collector.py) and the headline normaliser                  *)
(* (data/news_data_collector.py) as state machines.                        *)
(*                                                                         *)
(*   SpecClean : clean_stock_data applied to a raw frame, then to its own  *)
(*               output.                                                   *)
(*   SpecLabel : create_target_variable applied to a frame of closes, then *)
(*               main's training step on the labeled frame.                *)
(*   SpecFeat  : engineer_features applied to a clean frame.               *)
(*   SpecOrder : find_optimal_arima_order over a grid of orders.           *)
(*   Spec      : update_stock_data / update_all_stocks / continuous_update *)
(*               against the stocks table and the price provider.          *)
(*   SpecBatch : data_cleaner main over the ticker list, run after run.    *)
(*   SpecRetry : run_command_with_retry, attempt by attempt.               *)
(*   SpecText  : clean_headline applied to a headline.                     *)
(***************************************************************************)
EXTENDS Integers, Sequences, FiniteSets, Bags, TLC

VARIABLES
    \* ---- cleaning stage ----
    raw_df,          \* the frame handed to clean_stock_data
    cleaned_df,      \* clean_stock_data(raw_df)
    recleaned_df,    \* clean_stock_data(cleaned_df)
    cstage,          \* "off" | "raw" | "cleaned" | "recleaned"
    \* ---- label constructor ----
    feat_df,         \* the frame handed to create_target_variable
    days_ahead,      \* its horizon argument
    labeled_df,      \* create_target_variable(feat_df, days_ahead)
    lstage,          \* "off" | "raw" | "labeled" | "trained"
    trained,         \* how main's training of the labeled frame went
    \* ---- feature engine ----
    df_clean,        \* the clean frame handed to engineer_features
    df_feat,         \* engineer_features(df_clean)
    fstage,          \* "off" | "clean" | "engineered" | "saved"
    stocks_clean,    \* the stocks_clean table: the bag of its rows (id left out)
    runs,            \* how many times main has taken up the symbol
    \* ---- ARIMA order selector ----
    fits,            \* what ARIMA(timeseries, order).fit() does for each order
    max_p,           \* the arguments of find_optimal_arima_order
    max_d,
    max_q,
    found,           \* what find_optimal_arima_order did and returned
    ostage,          \* "off" | "series" | "searched"
    \* ---- sync controller ----
    store,           \* the stocks table: the bag of its rows (id left out)
    today,           \* datetime.now().date(), as a day number
    market,          \* the dates on which the provider holds a bar
    pc,              \* "off" | "idle" (no process runs) | "batch" | "sleep"
    continuous,      \* the running process is continuous_update
    force,           \* the force_update argument of the running batch
    idx,             \* 1-based position of the batch loop in the ticker list
    success_count,   \* update_all_stocks' success_count
    attempted,       \* the tickers the running (or last) batch has attempted
    provider_failed, \* how many of them failed at the provider
    store_failed,    \* whether the store failed on a write for one of them
    batch_result,    \* "none" | "running" | "completed" | "interrupted"
    last,            \* what the last update_stock_data call did
    \* ---- cleaning batch ----
    stocks_of,       \* what SELECT * FROM stocks WHERE symbol = ... returns
    args_force,      \* main's --force flag
    bpos,            \* how many tickers main's loop has taken up
    taken,           \* what the loop did with each of them, in order
    bstage,          \* "off" | "idle" | "running" | "exit0" | "exit1"
    bruns,           \* how many times main has been started
    \* ---- retrying command runner ----
    max_retries,     \* the arguments of run_command_with_retry
    delay,
    attempt,         \* the loop variable of range(max_retries)
    results,         \* how each subprocess.run so far ended, in order
    waits,           \* the time.sleep calls so far: after which attempt, how long
    rpc,             \* "off" | "called" | "sleeping" | "returned"
    returned,        \* "none" before the return, then "True" | "False"
    \* ---- headline normaliser ----
    headline,        \* the argument of clean_headline, a sequence of characters
    cleaned,         \* clean_headline(headline)
    tstage           \* "off" | "raw" | "cleaned"

cleanVars == <<raw_df, cleaned_df, recleaned_df, cstage>>
labelVars == <<feat_df, days_ahead, labeled_df, lstage, trained>>
featVars  == <<df_clean, df_feat, fstage, stocks_clean, runs>>
orderVars == <<fits, max_p, max_d, max_q, found, ostage>>
syncVars  == <<store, today, market, pc, continuous, force, idx,
               success_count, attempted, provider_failed, store_failed,
               batch_result, last>>
batchVars == <<stocks_of, args_force, bpos, taken, bstage, bruns>>
retryVars == <<max_retries, delay, attempt, results, waits, rpc, returned>>
textVars  == <<headline, cleaned, tstage>>
vars == <<cleanVars, labelVars, featVars, orderVars, syncVars, batchVars,
          retryVars, textVars>>

(***************************************************************************)
(* Bounds of the model.                                                    *)
(***************************************************************************)
MaxRows == 3        \* rows of a raw frame given to clean_stock_data
MaxBars == 5        \* rows of a frame given to create_target_variable
MaxHorizon == 3     \* largest days_ahead tried
NumTickers == 2     \* how many tickers of TOP_50_TICKERS the batch runs over
StartDay == 1000    \* the day number of the first day of a run
MaxAdvance == 1     \* how many days the clock advances during a run
MaxStoreRows == 3   \* rows the stocks table may grow to
MaxFeatBars == 21   \* rows of a frame given to engineer_features
MaxRuns == 2        \* runs of the cleaning main over the same symbol
MaxRetries == 3     \* the largest max_retries handed to run_command_with_retry
MaxHeadline == 4    \* characters of a short headline
MaxP == 1           \* the max_p, max_d, max_q given to find_optimal_arima_order (or 0)
MaxD == 1
MaxQ == 1
MaxFitted == 2      \* how many orders of the grid the series lets ARIMA fit

(***************************************************************************)
(* pandas values.  NaN is numpy's missing value: it is equal to nothing    *)
(* and every ordering comparison with it is False.                         *)
(***************************************************************************)
NaN == -999

isnull(x) == x = NaN

\* x <= 0 as pandas evaluates it (False on a missing value)
le0(x) == ~isnull(x) /\ x <= 0

\* a >= b as pandas evaluates it (False when either side is missing)
ge(a, b) == ~isnull(a) /\ ~isnull(b) /\ a >= b

\* df[mask]: boolean indexing, the rows whose mask entry is True, in order
BoolIndex(df, mask) ==
    LET F[i \in 0..Len(df)] ==
            IF i = 0 THEN <<>>
            ELSE IF mask[i] THEN Append(F[i-1], df[i]) ELSE F[i-1]
    IN  F[Len(df)]

(***************************************************************************)
(* data/data_cleaner.py : clean_stock_data                                 *)
(***************************************************************************)
price_columns == <<"open", "high", "low", "close">>

\* the columns that can hold a missing value (symbol is the key the frame was
\* selected by)
value_columns == <<"date", "open", "high", "low", "close", "volume">>

\* a mutant of drop_duplicates: keep='last'
drop_duplicates_last(df) ==
    BoolIndex(df, [i \in 1..Len(df) |->
        \A j \in (i+1)..Len(df) :
            ~(df[j].symbol = df[i].symbol /\ df[j].date = df[i].date)])

\* df.drop_duplicates(subset=['symbol', 'date']): keep='first'
drop_duplicates(df) ==
    BoolIndex(df, [i \in 1..Len(df) |->
        \A j \in 1..(i-1) :
            ~(df[j].symbol = df[i].symbol /\ df[j].date = df[i].date)])

\* one row put in its place in a frame already sorted by date (after its equals)
InsertByDate(sorted, r) ==
    LET k == Cardinality({i \in 1..Len(sorted) : sorted[i].date <= r.date})
    IN  SubSeq(sorted, 1, k) \o <<r>> \o SubSeq(sorted, k+1, Len(sorted))

\* a mutant of sort_values: the frame is left in its input order
sort_values_unsorted(df) == df

\* df.sort_values('date').reset_index(drop=True)
RECURSIVE sort_values(_)
sort_values(df) ==
    IF df = <<>> THEN <<>>
    ELSE InsertByDate(sort_values(SubSeq(df, 1, Len(df)-1)), df[Len(df)])

\* df.isnull().sum().sum() > 0
has_missing(df) ==
    \E i \in 1..Len(df) : \E c \in 1..Len(value_columns) : isnull(df[i][value_columns[c]])

\* df[price_columns].fillna(method='ffill'): each missing price takes the last
\* non-missing value above it in its column; it stays missing when there is none
ffill(df) ==
    LET F[i \in 0..Len(df)] ==
            IF i = 0 THEN <<>>
            ELSE LET prev(c) == IF i = 1 THEN NaN ELSE F[i-1][i-1][c]
                     fill(c) == IF isnull(df[i][c]) THEN prev(c) ELSE df[i][c]
                 IN  Append(F[i-1],
                        [df[i] EXCEPT !.open = fill("open"), !.high = fill("high"),
                                      !.low = fill("low"), !.close = fill("close")])
    IN  F[Len(df)]

\* df['volume'].fillna(0)
fillna_volume(df) ==
    [i \in 1..Len(df) |->
        IF isnull(df[i].volume) THEN [df[i] EXCEPT !.volume = 0] ELSE df[i]]

\* a mutant of invalid_prices: < 0 in place of <= 0
invalid_prices_negative(df) ==
    [i \in 1..Len(df) |->
        \E c \in 1..Len(price_columns) :
            ~isnull(df[i][price_columns[c]]) /\ df[i][price_columns[c]] < 0]

\* (df[['open', 'high', 'low', 'close']] <= 0).any(axis=1)
invalid_prices(df) ==
    [i \in 1..Len(df) |->
        \E c \in 1..Len(price_columns) : le0(df[i][price_columns[c]])]

\* (high >= low) & (high >= open) & (high >= close)
price_logic(df) ==
    [i \in 1..Len(df) |->
        /\ ge(df[i].high, df[i].low)
        /\ ge(df[i].high, df[i].open)
        /\ ge(df[i].high, df[i].close)]

\* a mutant of clean_stock_data: the price-logic filter made the else branch of
\* the invalid-price removal, so only one of the two filters runs in a pass
clean_stock_data_else(df) ==
    LET d2 == sort_values(drop_duplicates(df))
        d3 == IF has_missing(d2) THEN fillna_volume(ffill(d2)) ELSE d2
        inv == invalid_prices(d3)
    IN  IF \E i \in 1..Len(d3) : inv[i]
        THEN BoolIndex(d3, [i \in 1..Len(d3) |-> ~inv[i]])
        ELSE BoolIndex(d3, price_logic(d3))

clean_stock_data(df) ==
    LET d1 == drop_duplicates(df)
        d2 == sort_values(d1)
        d3 == IF has_missing(d2) THEN fillna_volume(ffill(d2)) ELSE d2
        inv == invalid_prices(d3)
        d4 == IF \E i \in 1..Len(d3) : inv[i]
              THEN BoolIndex(d3, [i \in 1..Len(d3) |-> ~inv[i]])
              ELSE d3
    IN  BoolIndex(d4, price_logic(d4))

(***************************************************************************)
(* Raw frames of one symbol: load_stock_data selects one symbol's rows.    *)
(***************************************************************************)
Bar(d, o, h, l, c, v) ==
    [symbol |-> "AAPL", date |-> d, open |-> o, high |-> h, low |-> l,
     close |-> c, volume |-> v]

\* the dates of raw rows
RawDates == {1, 2, 3}

\* the bars a raw row may carry: valid ones, ones with missing values, with a
\* zero or negative price, and with high below low, open or close
RawRows ==
    UNION {{ Bar(d, 1, 2, 1, 2, 50),        \* valid
             Bar(d, 2, 3, 1, 3, NaN),       \* valid, volume missing
             Bar(d, NaN, 3, 2, 3, 70),      \* open missing
             Bar(d, 2, NaN, NaN, NaN, 70),  \* high, low, close missing
             Bar(d, 0, 2, 1, 1, 50),        \* zero open
             Bar(d, 1, 2, -1, 2, 50),       \* negative low
             Bar(d, 3, 2, 1, 2, 50),        \* high < open
             Bar(d, 1, 1, 2, 1, 50),        \* high < low
             Bar(d, 1, 2, 1, 3, 50) }       \* high < close
           : d \in RawDates}

CleanIdle ==
    /\ raw_df = <<>> /\ cleaned_df = <<>> /\ recleaned_df = <<>> /\ cstage = "off"

CleanInit ==
    /\ \E k \in 0..MaxRows : raw_df \in [1..k -> RawRows]
    /\ cleaned_df = <<>> /\ recleaned_df = <<>>
    /\ cstage = "raw"

\* clean_stock_data(df) on the loaded frame
Clean ==
    /\ cstage = "raw"
    /\ cleaned_df' = clean_stock_data(raw_df)
    /\ cstage' = "cleaned"
    /\ UNCHANGED <<raw_df, recleaned_df, labelVars, featVars, orderVars, syncVars,
                   batchVars, retryVars, textVars>>

\* clean_stock_data run again, on its own output
CleanAgain ==
    /\ cstage = "cleaned"
    /\ recleaned_df' = clean_stock_data(cleaned_df)
    /\ cstage' = "recleaned"
    /\ UNCHANGED <<raw_df, cleaned_df, labelVars, featVars, orderVars, syncVars,
                   batchVars, retryVars, textVars>>

(***************************************************************************)
(* models/random_forest_predictor.py : create_target_variable              *)
(***************************************************************************)
\* the percentage a close must rise by, strictly, for target = 1
THRESHOLD == 2

\* a float that is either missing or the exact quotient num / den, den > 0
Missing == [nan |-> TRUE, num |-> 0, den |-> 1]

Ratio(n, d) == [nan |-> FALSE, num |-> n, den |-> d]

\* x > k as pandas evaluates it (False on a missing value)
gt(x, k) == ~x.nan /\ x.num > k * x.den

\* df['close'].shift(-n): row i takes the close n rows below, missing past the end
shift(df, n) ==
    [i \in 1..Len(df) |-> IF i + n <= Len(df) THEN df[i + n].close ELSE NaN]

\* ((future_price - close) / close) * 100
price_change_pct(future_price, close) ==
    IF isnull(future_price) THEN Missing
    ELSE Ratio((future_price - close) * 100, close)

\* a mutant of target: >= in place of >
target_ge(pct) == IF ~pct.nan /\ pct.num >= THRESHOLD * pct.den THEN 1 ELSE 0

\* (price_change_pct > 2).astype(int)
target(pct) == IF gt(pct, THRESHOLD) THEN 1 ELSE 0

\* df.dropna(subset=['target']): target is an int column after astype(int)
dropna_target(df) ==
    BoolIndex(df, [i \in 1..Len(df) |-> ~isnull(df[i].target)])

create_target_variable(df, n) ==
    LET future == shift(df, n)
        d1 == [i \in 1..Len(df) |->
                 LET pct == price_change_pct(future[i], df[i].close)
                 IN  [index |-> df[i].index, close |-> df[i].close,
                      future_price |-> future[i],
                      price_change_pct |-> pct,
                      target |-> target(pct)]]
    IN  dropna_target(d1)

\* closes of clean bars (all positive); they hold the documented example
ClosePrices == {98, 100, 102, 105, 110}

ExampleCloses == <<100, 102, 105, 98, 110>>

\* the frame of a sequence of closes, with pandas' default index (here 1-based)
Frame(closes) == [i \in 1..Len(closes) |-> [index |-> i, close |-> closes[i]]]

LabelInit ==
    /\ \E k \in 0..MaxBars : \E closes \in [1..k -> ClosePrices] : feat_df = Frame(closes)
    /\ days_ahead \in 1..MaxHorizon
    /\ labeled_df = <<>>
    /\ lstage = "raw"
    /\ trained = "no"

\* create_target_variable(df, days_ahead)
Label ==
    /\ lstage = "raw"
    /\ labeled_df' = create_target_variable(feat_df, days_ahead)
    /\ lstage' = "labeled"
    /\ UNCHANGED <<feat_df, days_ahead, trained, cleanVars, featVars, orderVars, syncVars,
                   batchVars, retryVars, textVars>>

\* prepare_features: X = df[available_features].values, y = df['target'].values,
\* without the rows that miss a feature value
prepare_features(df) ==
    LET mask == [i \in 1..Len(df) |-> ~isnull(df[i].close)]
        kept == BoolIndex(df, mask)
    IN  [X |-> [i \in 1..Len(kept) |-> kept[i].close],
         y |-> [i \in 1..Len(kept) |-> kept[i].target]]

\* the body of main's loop after create_target_variable: an empty frame or an
\* empty feature matrix skips the symbol; otherwise train_random_forest is
\* called and starts with train_test_split(X, y, ..., stratify=y)
train_symbol(df) ==
    IF df = <<>> THEN "skipped"
    ELSE LET xy == prepare_features(df)
         IN  IF Len(xy.X) = 0 THEN "skipped" ELSE "stratified_split"

\* main: prepare_features and train_random_forest on the labeled frame
Train ==
    /\ lstage = "labeled"
    /\ trained' = train_symbol(labeled_df)
    /\ lstage' = "trained"
    /\ UNCHANGED <<feat_df, days_ahead, labeled_df, cleanVars, featVars, orderVars, syncVars,
                   batchVars, retryVars, textVars>>

(***************************************************************************)
(* utils/database.py : insert_dataframe                                    *)
(***************************************************************************)
\* the rows of a frame as a bag
RECURSIVE FrameBag(_)
FrameBag(df) ==
    IF df = <<>> THEN EmptyBag
    ELSE FrameBag(SubSeq(df, 1, Len(df) - 1)) (+) SetToBag({df[Len(df)]})

\* a mutant of insert_dataframe: if_exists='replace'
insert_dataframe_replace(df, table) == FrameBag(df)

\* insert_dataframe: df.to_sql(table_name, engine, if_exists='append')
insert_dataframe(df, table) == table (+) FrameBag(df)

(***************************************************************************)
(* data/data_cleaner.py : engineer_features                                *)
(***************************************************************************)
MOVING_AVERAGE_PERIODS == <<5, 10, 20>>

\* the window of the RSI's rolling means
RSI_WINDOW == 14

\* floats beyond the finite quotients: +inf and -inf (den = 0, num = 1 or -1)
Inf == [nan |-> FALSE, num |-> 1, den |-> 0]

isinf(x) == ~x.nan /\ x.den = 0

Sign(n) == IF n > 0 THEN 1 ELSE IF n < 0 THEN -1 ELSE 0

\* x / y in IEEE arithmetic: 0/0 and inf/inf are NaN, a/0 is an infinity
fdiv(x, y) ==
    IF x.nan \/ y.nan THEN Missing
    ELSE IF isinf(y) THEN (IF isinf(x) THEN Missing ELSE Ratio(0, 1))
    ELSE IF isinf(x) THEN [Inf EXCEPT !.num = x.num * (IF y.num < 0 THEN -1 ELSE 1)]
    ELSE IF y.num = 0 THEN (IF x.num = 0 THEN Missing
                            ELSE [Inf EXCEPT !.num = Sign(x.num)])
    ELSE LET n == x.num * y.den
             d == x.den * y.num
         IN  IF d < 0 THEN Ratio(-n, -d) ELSE Ratio(n, d)

\* k + x and k - x for an integer k
fadd(k, x) ==
    IF x.nan THEN Missing
    ELSE IF isinf(x) THEN x
    ELSE Ratio(k * x.den + x.num, x.den)

fsub(k, x) ==
    IF x.nan THEN Missing
    ELSE IF isinf(x) THEN [x EXCEPT !.num = -x.num]
    ELSE Ratio(k * x.den - x.num, x.den)

\* x * k for an integer k > 0
fmul(x, k) ==
    IF x.nan \/ isinf(x) THEN x ELSE Ratio(x.num * k, x.den)

RECURSIVE SumRange(_, _, _)
SumRange(s, lo, hi) == IF lo > hi THEN 0 ELSE s[hi] + SumRange(s, lo, hi - 1)

\* a mutant of rolling_mean: min_periods = 1 (a mean of the rows there are)
rolling_mean_partial(s, window) ==
    [i \in 1..Len(s) |->
        IF i < window THEN Ratio(SumRange(s, 1, i), i)
        ELSE Ratio(SumRange(s, i - window + 1, i), window)]

\* s.rolling(window).mean(): missing until the window holds window values
\* that are not missing (min_periods = window)
rolling_mean(s, window) ==
    [i \in 1..Len(s) |->
        IF i < window \/ \E j \in (i - window + 1)..i : isnull(s[j]) THEN Missing
        ELSE Ratio(SumRange(s, i - window + 1, i), window)]

\* s.rolling(window).std(): missing while a value of the window is missing or
\* the window is not full; the model keeps whether the deviation is defined,
\* not its (irrational) value
rolling_std(s, window) ==
    [i \in 1..Len(s) |->
        IF i < window \/ \E j \in (i - window + 1)..i : s[j].nan
        THEN "missing" ELSE "defined"]

\* a mutant of pct_change: the change relative to the current close
pct_change_current(s) ==
    [i \in 1..Len(s) |->
        IF i = 1 THEN Missing ELSE Ratio(s[i] - s[i - 1], s[i])]

\* s.pct_change(): s[i] / s[i-1] - 1, missing on the first row
pct_change(s) ==
    [i \in 1..Len(s) |->
        IF i = 1 THEN Missing ELSE Ratio(s[i] - s[i - 1], s[i - 1])]

\* s.diff(): missing on the first row
diff(s) == [i \in 1..Len(s) |-> IF i = 1 THEN NaN ELSE s[i] - s[i - 1]]

\* a mutant of gain_of: the missing first change stays missing
gain_of_absent(delta) ==
    [i \in 1..Len(delta) |->
        IF isnull(delta[i]) THEN NaN ELSE IF delta[i] > 0 THEN delta[i] ELSE 0]

\* delta.where(delta > 0, 0): the comparison is False on the missing first row
gain_of(delta) ==
    [i \in 1..Len(delta) |->
        IF ~isnull(delta[i]) /\ delta[i] > 0 THEN delta[i] ELSE 0]

\* a mutant of loss_of: the negation left out
loss_of_unnegated(delta) ==
    [i \in 1..Len(delta) |->
        IF ~isnull(delta[i]) /\ delta[i] < 0 THEN delta[i] ELSE 0]

\* -delta.where(delta < 0, 0)
loss_of(delta) ==
    [i \in 1..Len(delta) |->
        IF ~isnull(delta[i]) /\ delta[i] < 0 THEN -delta[i] ELSE 0]

\* 100 - (100 / (1 + rs)) with rs = gain / loss
rsi_of(gain, loss) ==
    [i \in 1..Len(gain) |->
        LET rs == fdiv(gain[i], loss[i])
        IN  fsub(100, fdiv(Ratio(100, 1), fadd(1, rs)))]

Column(df, c) == [i \in 1..Len(df) |-> df[i][c]]

\* s * k, row by row
times(s, k) == [i \in 1..Len(s) |-> fmul(s[i], k)]

\* the RSI column of the price changes delta
rsi_from(delta) ==
    rsi_of(rolling_mean(gain_of(delta), RSI_WINDOW),
           rolling_mean(loss_of(delta), RSI_WINDOW))

\* the frame with its feature columns added, row by row
add_columns(df, ma, daily_return, volume_ma_5, volatility_5, volatility_10, rsi) ==
    [i \in 1..Len(df) |->
        [symbol |-> df[i].symbol, date |-> df[i].date, open |-> df[i].open,
         high |-> df[i].high, low |-> df[i].low, close |-> df[i].close,
         volume |-> df[i].volume,
         ma_5 |-> ma[1][i], ma_10 |-> ma[2][i], ma_20 |-> ma[3][i],
         daily_return |-> daily_return[i],
         price_range |-> df[i].high - df[i].low,
         price_range_pct |-> Ratio((df[i].high - df[i].low) * 100, df[i].close),
         volume_ma_5 |-> volume_ma_5[i],
         volatility_5 |-> volatility_5[i],
         volatility_10 |-> volatility_10[i],
         rsi |-> rsi[i]]]

\* the features of a frame whose close and daily_return columns are given
features_of(df, close, daily_return) ==
    add_columns(df,
        [k \in 1..Len(MOVING_AVERAGE_PERIODS) |->
            rolling_mean(close, MOVING_AVERAGE_PERIODS[k])],
        daily_return,
        rolling_mean(Column(df, "volume"), 5),
        rolling_std(daily_return, 5),
        rolling_std(daily_return, 10),
        rsi_from(diff(close)))

engineer_features(df) ==
    features_of(df, Column(df, "close"), times(pct_change(Column(df, "close")), 100))

\* closes of clean bars
FeatCloses == {98, 100, 105}

\* a clean bar built around its close, as the feature tests build them
CleanBar(d, c) == Bar(d, c, c + 2, c - 2, c, 1000)

\* a clean frame of k bars whose close is v1 up to row a, v2 up to row b and
\* v3 after it
StepFrame(k, a, b, v1, v2, v3) ==
    [i \in 1..k |-> CleanBar(i, IF i <= a THEN v1 ELSE IF i <= b THEN v2 ELSE v3)]

FeatIdle ==
    /\ df_clean = <<>> /\ df_feat = <<>> /\ fstage = "off"
    /\ stocks_clean = EmptyBag /\ runs = 0

FeatInit ==
    /\ \E k \in 1..MaxFeatBars : \E a \in 0..k : \E b \in a..k :
         \E v1 \in FeatCloses, v2 \in FeatCloses, v3 \in FeatCloses :
            df_clean = StepFrame(k, a, b, v1, v2, v3)
    /\ df_feat = <<>>
    /\ fstage = "clean"
    /\ stocks_clean = EmptyBag
    /\ runs = 1

\* df_feat = engineer_features(df_clean)
Engineer ==
    /\ fstage = "clean"
    /\ df_feat' = engineer_features(df_clean)
    /\ fstage' = "engineered"
    /\ UNCHANGED <<df_clean, stocks_clean, runs, cleanVars, labelVars, orderVars, syncVars,
                   batchVars, retryVars, textVars>>

\* check_existing_cleaned_data: SELECT COUNT(*) FROM stocks_clean WHERE symbol
check_existing_cleaned_data(symbol, table) ==
    \E row \in BagToSet(table) : row.symbol = symbol

\* a row without a missing value in any column
Complete(row) ==
    /\ \A c \in {"date", "open", "high", "low", "close", "volume"} : ~isnull(row[c])
    /\ \A c \in {"ma_5", "ma_10", "ma_20", "daily_return", "price_range_pct",
                  "volume_ma_5", "rsi"} : ~row[c].nan
    /\ row.volatility_5 # "missing" /\ row.volatility_10 # "missing"

\* a mutant of dropna: no row dropped
dropna_none(df) == df

\* df.dropna(): the rows without a missing value
dropna(df) == BoolIndex(df, [i \in 1..Len(df) |-> Complete(df[i])])

\* df[available_columns]: the columns of columns_to_save
columns_to_save(df) ==
    [i \in 1..Len(df) |->
        [symbol |-> df[i].symbol, date |-> df[i].date, open |-> df[i].open,
         high |-> df[i].high, low |-> df[i].low, close |-> df[i].close,
         volume |-> df[i].volume, ma_5 |-> df[i].ma_5, ma_10 |-> df[i].ma_10,
         ma_20 |-> df[i].ma_20, daily_return |-> df[i].daily_return]]

\* save_cleaned_data(df, symbol): the table after the call
save_cleaned_data(df, table) ==
    IF df = <<>> THEN table
    ELSE insert_dataframe(drop_duplicates(columns_to_save(dropna(df))), table)

\* save_cleaned_data(df_feat, symbol)
Save ==
    /\ fstage = "engineered"
    /\ stocks_clean' = save_cleaned_data(df_feat, stocks_clean)
    /\ fstage' = "saved"
    /\ UNCHANGED <<df_clean, df_feat, runs, cleanVars, labelVars, orderVars, syncVars,
                   batchVars, retryVars, textVars>>

\* main takes up the same symbol again, with or without --force, over the
\* same stocks rows: it skips a symbol stocks_clean already holds unless
\* forced, and otherwise loads, cleans, engineers and saves again; the same
\* rows give the same engineered frame, df_feat = engineer_features(df_clean)
Rerun(force_clean) ==
    /\ fstage = "saved" /\ runs < MaxRuns
    /\ runs' = runs + 1
    /\ stocks_clean' =
          IF ~force_clean /\ check_existing_cleaned_data(df_clean[1].symbol, stocks_clean)
          THEN stocks_clean
          ELSE save_cleaned_data(df_feat, stocks_clean)
    /\ UNCHANGED <<df_clean, df_feat, fstage, cleanVars, labelVars, orderVars, syncVars,
                   batchVars, retryVars, textVars>>

(***************************************************************************)
(* models/arima_forecaster.py : find_optimal_arima_order                   *)
(***************************************************************************)
ARIMA_ORDER == <<1, 1, 1>>

\* np.inf, above every AIC
np_inf == 1000000

\* best_order = None
NoOrder == <<>>

\* the orders in the order the three nested loops visit them: p outermost,
\* then d, then q
Candidates(mp, md, mq) ==
    [k \in 1..((mp + 1) * (md + 1) * (mq + 1)) |->
        <<(k - 1) \div ((md + 1) * (mq + 1)),
          ((k - 1) \div (mq + 1)) % (md + 1),
          (k - 1) % (mq + 1)>>]

\* a mutant of better: <= in place of <
better_or_equal(aic, best_aic) == ~isnull(aic) /\ aic <= best_aic

\* fitted_model.aic < best_aic (False on a NaN AIC)
better(aic, best_aic) == ~isnull(aic) /\ aic < best_aic

\* the body of the innermost loop for the orders cands[k..]: a fit that raises
\* is skipped by the bare except
RECURSIVE grid_search(_, _, _, _)
grid_search(outcomes, cands, k, acc) ==
    IF k > Len(cands) THEN acc
    ELSE LET order == cands[k]
             fit == outcomes[order]
             tried == Append(acc.tried, order)
         IN  grid_search(outcomes, cands, k + 1,
                 IF ~fit.raises /\ better(fit.aic, acc.best_aic)
                 THEN [best_aic |-> fit.aic, best_order |-> order, tried |-> tried]
                 ELSE [acc EXCEPT !.tried = tried])

\* a mutant of or_default: no fallback
or_none(best_order) == best_order

\* if best_order is None: return ARIMA_ORDER
or_default(best_order) == IF best_order = NoOrder THEN ARIMA_ORDER ELSE best_order

find_optimal_arima_order(outcomes, mp, md, mq) ==
    LET s == grid_search(outcomes, Candidates(mp, md, mq), 1,
                         [best_aic |-> np_inf, best_order |-> NoOrder, tried |-> <<>>])
    IN  [ret |-> or_default(s.best_order), raised |-> FALSE,
         tried |-> s.tried, best_aic |-> s.best_aic]

Range(f) == {f[x] : x \in DOMAIN f}

\* the AICs a fit can report: finite ones, inf and NaN
AicValues == {10, 20, np_inf, NaN}

Raises == [raises |-> TRUE, aic |-> NaN]

\* the fits of a series on which the orders cands[ks[1..n]] fit with the AICs
\* as[1..n] and every other order raises
FitsOf(cands, ks, as) ==
    [order \in Range(cands) |->
        IF \E j \in 1..Len(ks) : cands[ks[j]] = order
        THEN [raises |-> FALSE,
              aic |-> as[CHOOSE j \in 1..Len(ks) : cands[ks[j]] = order]]
        ELSE Raises]

Increasing(ks) == \A i \in 1..Len(ks), j \in 1..Len(ks) : i < j => ks[i] < ks[j]

OrderIdle ==
    /\ fits = <<>> /\ max_p = 0 /\ max_d = 0 /\ max_q = 0
    /\ found = <<>> /\ ostage = "off"

OrderInit ==
    /\ max_p \in {0, MaxP} /\ max_d \in {0, MaxD} /\ max_q \in {0, MaxQ}
    /\ \E cands \in {Candidates(max_p, max_d, max_q)} :
         \E n \in 0..MaxFitted :
           \E ks \in [1..n -> 1..Len(cands)] :
              /\ Increasing(ks)
              /\ \E as \in [1..n -> AicValues] : fits = FitsOf(cands, ks, as)
    /\ found = <<>>
    /\ ostage = "series"

\* order = find_optimal_arima_order(closing_prices)
FindOrder ==
    /\ ostage = "series"
    /\ found' = find_optimal_arima_order(fits, max_p, max_d, max_q)
    /\ ostage' = "searched"
    /\ UNCHANGED <<fits, max_p, max_d, max_q, cleanVars, labelVars, featVars, syncVars,
                   batchVars, retryVars, textVars>>

(***************************************************************************)
(* config.py                                                               *)
(***************************************************************************)
MAX_DAYS_BACK == 365

TOP_50_TICKERS ==
    <<"AAPL", "MSFT", "GOOGL", "AMZN", "NVDA", "META", "TSLA", "BRK.B", "UNH", "JPM",
      "V", "XOM", "LLY", "AVGO", "JNJ", "WMT", "MA", "PG", "CVX", "MRK",
      "HD", "COST", "ABBV", "ADBE", "PEP", "BAC", "KO", "PFE", "NFLX", "TMO",
      "DIS", "ABT", "CSCO", "MCD", "CRM", "ACN", "DHR", "LIN", "VZ", "WFC",
      "INTC", "TXN", "NEE", "PM", "BMY", "UNP", "HON", "ORCL", "AMGN", "IBM">>

\* the tickers of the model: the first NumTickers of the list, in list order
Tickers == SubSeq(TOP_50_TICKERS, 1, NumTickers)

TickerSet == {Tickers[i] : i \in 1..NumTickers}

(***************************************************************************)
(* The price provider (yfinance): for each ticker it holds one bar on every *)
(* date of market.                                                         *)
(***************************************************************************)
ProviderBar(symbol, d) ==
    [symbol |-> symbol, date |-> d, open |-> 10, high |-> 12, low |-> 9,
     close |-> 11, volume |-> 1000]

\* the elements of a set of dates in ascending order
RECURSIVE Ascending(_)
Ascending(S) ==
    IF S = {} THEN <<>>
    ELSE LET m == CHOOSE x \in S : \A y \in S : x <= y
         IN  <<m>> \o Ascending(S \ {m})

\* ticker.history(start=start, end=end): the bars dated start <= date < end
history(symbol, start, end) ==
    LET days == Ascending({d \in market : start <= d /\ d < end})
    IN  [i \in 1..Len(days) |-> ProviderBar(symbol, days[i])]

(***************************************************************************)
(* utils/database.py and data/realtime_updater.py                          *)
(***************************************************************************)
\* Python's None: the latest date of a symbol with no row
None == -1

Min(a, b) == IF a <= b THEN a ELSE b

\* SELECT MAX(date) FROM stocks WHERE symbol = :symbol
max_date(table, symbol) ==
    LET ds == {r.date : r \in {x \in BagToSet(table) : x.symbol = symbol}}
    IN  IF ds = {} THEN None ELSE CHOOSE d \in ds : \A e \in ds : e <= d

\* get_latest_data_date: a failing query is logged and answered with None
get_latest_data_date(symbol, table, read_fails) ==
    IF read_fails THEN None ELSE max_date(table, symbol)

\* the window fetch_latest_data asks the provider for: start_date and end_date
\* (history is called with end = end_date + 1 day)
fetch_window(days_back, now) ==
    [start_date |-> now - days_back, end_date |-> now]

\* fetch_latest_data: the provider's bars of the window; an exception of the
\* provider is logged and answered with an empty frame
fetch_latest_data(symbol, days_back, now, provider_fails) ==
    LET w == fetch_window(days_back, now)
    IN  IF provider_fails THEN <<>> ELSE history(symbol, w.start_date, w.end_date + 1)

\* a mutant of days_back: the buffer of 2 days left out
days_back_nobuffer(latest_db_date, now) ==
    IF latest_db_date = None THEN MAX_DAYS_BACK
    ELSE Min(now - latest_db_date, MAX_DAYS_BACK)

\* the days_back update_stock_data computes from the latest stored date
days_back_of(latest_db_date, now) ==
    IF latest_db_date = None THEN MAX_DAYS_BACK
    ELSE Min((now - latest_db_date) + 2, MAX_DAYS_BACK)

\* a mutant of up_to_date: the force flag is not looked at
up_to_date_unforced(latest_db_date, now, force_update) ==
    latest_db_date # None /\ now - latest_db_date = 0

\* the early return of update_stock_data: days_since_update == 0 and not forced
up_to_date(latest_db_date, now, force_update) ==
    latest_db_date # None /\ now - latest_db_date = 0 /\ ~force_update

\* update_stock_data(symbol, force_update) on the table, on day now; env says
\* whether the store's read, the provider and the store's write fail this time.
\* The result: ret, the table afterwards, and what the call did.
update_stock_data(symbol, force_update, table, now, env) ==
    LET latest_db_date == get_latest_data_date(symbol, table, env.read_fails)
        days_back == days_back_of(latest_db_date, now)
        new_data == fetch_latest_data(symbol, days_back, now, env.provider_fails)
        deduped == drop_duplicates(new_data)
        did == [symbol |-> symbol, force_update |-> force_update, now |-> now,
                latest_stored |-> max_date(table, symbol),
                read_failed |-> env.read_fails,
                fetched |-> FALSE, provider_failed |-> FALSE, days_back |-> 0,
                start_date |-> 0, end_date |-> 0, n_fetched |-> 0,
                write_failed |-> FALSE, n_written |-> 0, ret |-> FALSE]
    IN  IF up_to_date(latest_db_date, now, force_update)
        THEN [ret |-> TRUE, table |-> table, did |-> [did EXCEPT !.ret = TRUE]]
        ELSE LET w == fetch_window(days_back, now)
                 f == [did EXCEPT !.fetched = TRUE, !.days_back = days_back,
                                  !.start_date = w.start_date,
                                  !.end_date = w.end_date,
                                  !.provider_failed = env.provider_fails,
                                  !.n_fetched = Len(new_data)]
             IN  IF new_data = <<>>
                 THEN [ret |-> FALSE, table |-> table, did |-> f]
                 ELSE IF env.write_fails
                 THEN [ret |-> FALSE, table |-> table,
                       did |-> [f EXCEPT !.write_failed = TRUE]]
                 ELSE [ret |-> TRUE, table |-> insert_dataframe(deduped, table),
                       did |-> [f EXCEPT !.ret = TRUE, !.n_written = Len(deduped)]]

\* what can go wrong in one call
Envs == [read_fails : BOOLEAN, provider_fails : BOOLEAN, write_fails : BOOLEAN]

\* env names a failure only of a step the call r came to
Relevant(env, r) ==
    /\ (env.provider_fails => r.did.fetched)
    /\ (env.write_fails => r.did.write_failed)

\* the dates the provider may hold bars on: the days around the run and one
\* day of its older history, more than MAX_DAYS_BACK days before the run
PoolDays == {StartDay - 380} \cup ((StartDay - 1)..(StartDay + MaxAdvance))

\* the provider's calendars: every day a trading day, or the market closed
\* until the first day of the run is over (a long weekend)
MarketChoices == {PoolDays, PoolDays \ {StartDay - 1, StartDay}}

\* what the stocks table may hold when a run starts: nothing, or one bar of the
\* first ticker from an earlier collection
InitialStores ==
    {EmptyBag} \cup {SetToBag({ProviderBar(Tickers[1], d)}) :
                        d \in {StartDay - 400, StartDay - 3, StartDay}}

NoCall == [symbol |-> "", force_update |-> FALSE, now |-> 0, latest_stored |-> None,
           read_failed |-> FALSE, fetched |-> FALSE, provider_failed |-> FALSE,
           days_back |-> 0, start_date |-> 0, end_date |-> 0, n_fetched |-> 0,
           write_failed |-> FALSE, n_written |-> 0, ret |-> FALSE]

SyncInit ==
    /\ store \in InitialStores
    /\ today = StartDay
    /\ market \in MarketChoices
    /\ pc = "idle"
    /\ continuous = FALSE /\ force = FALSE /\ idx = 0 /\ success_count = 0
    /\ attempted = <<>> /\ provider_failed = 0 /\ store_failed = FALSE
    /\ batch_result = "none"
    /\ last = NoCall

\* main --symbol S [--force]: one update_stock_data call
UpdateSymbol(symbol, force_update, env) ==
    /\ pc = "idle"
    /\ \E r \in {update_stock_data(symbol, force_update, store, today, env)} :
        /\ Relevant(env, r)
        /\ BagCardinality(r.table) <= MaxStoreRows
        /\ store' = r.table
        /\ last' = r.did
        /\ continuous' = FALSE /\ force' = force_update
        /\ idx' = 0 /\ success_count' = 0 /\ attempted' = <<>> /\ provider_failed' = 0
        /\ store_failed' = FALSE
        /\ batch_result' = "none"
        /\ UNCHANGED <<today, market, pc, cleanVars, labelVars, featVars, orderVars,
                   batchVars, retryVars, textVars>>

\* main --all [--force]: update_all_stocks(force_update) is entered
StartAll(force_update) ==
    /\ pc = "idle"
    /\ pc' = "batch" /\ continuous' = FALSE /\ force' = force_update
    /\ idx' = 1 /\ success_count' = 0 /\ attempted' = <<>> /\ provider_failed' = 0
    /\ store_failed' = FALSE
    /\ batch_result' = "running"
    /\ UNCHANGED <<store, today, market, last, cleanVars, labelVars, featVars, orderVars,
                   batchVars, retryVars, textVars>>

\* main --continuous: continuous_update enters its loop and calls
\* update_all_stocks()
StartContinuous ==
    /\ pc = "idle"
    /\ pc' = "batch" /\ continuous' = TRUE /\ force' = FALSE
    /\ idx' = 1 /\ success_count' = 0 /\ attempted' = <<>> /\ provider_failed' = 0
    /\ store_failed' = FALSE
    /\ batch_result' = "running"
    /\ UNCHANGED <<store, today, market, last, cleanVars, labelVars, featVars, orderVars,
                   batchVars, retryVars, textVars>>

\* one iteration of update_all_stocks' loop: update_stock_data on the next ticker
BatchStep(env) ==
    /\ pc = "batch" /\ idx <= NumTickers
    /\ \E r \in {update_stock_data(Tickers[idx], force, store, today, env)} :
           /\ Relevant(env, r)
           /\ BagCardinality(r.table) <= MaxStoreRows
           /\ store' = r.table
           /\ last' = r.did
           /\ success_count' = IF r.ret THEN success_count + 1 ELSE success_count
           /\ provider_failed' =
                 IF r.did.provider_failed THEN provider_failed + 1 ELSE provider_failed
           /\ store_failed' = (store_failed \/ r.did.write_failed)
    /\ attempted' = Append(attempted, Tickers[idx])
    /\ idx' = idx + 1
    /\ UNCHANGED <<today, market, pc, continuous, force, batch_result,
                   cleanVars, labelVars, featVars, orderVars,
                   batchVars, retryVars, textVars>>

\* update_all_stocks returns after its loop; continuous_update then sleeps
BatchEnd ==
    /\ pc = "batch" /\ idx > NumTickers
    /\ batch_result' = "completed"
    /\ pc' = IF continuous THEN "sleep" ELSE "idle"
    /\ UNCHANGED <<store, today, market, continuous, force, idx, success_count,
                   attempted, provider_failed, store_failed, last, cleanVars, labelVars, featVars, orderVars,
                   batchVars, retryVars, textVars>>

\* continuous_update's sleep ends: the loop calls update_all_stocks() again
Wake ==
    /\ pc = "sleep"
    /\ pc' = "batch" /\ idx' = 1 /\ success_count' = 0 /\ attempted' = <<>>
    /\ provider_failed' = 0 /\ store_failed' = FALSE /\ batch_result' = "running"
    /\ UNCHANGED <<store, today, market, continuous, force, last,
                   cleanVars, labelVars, featVars, orderVars,
                   batchVars, retryVars, textVars>>

\* KeyboardInterrupt is raised in the running process.  It is no Exception, so
\* update_stock_data's handler lets it through and update_all_stocks has none:
\* continuous_update catches it and breaks its loop, main --all dies of it.
Interrupt ==
    /\ pc \in {"batch", "sleep"}
    /\ pc' = "idle"
    /\ batch_result' = IF pc = "batch" THEN "interrupted" ELSE batch_result
    /\ UNCHANGED <<store, today, market, continuous, force, idx, success_count,
                   attempted, provider_failed, store_failed, last, cleanVars, labelVars, featVars, orderVars,
                   batchVars, retryVars, textVars>>

\* midnight passes
Tick ==
    /\ pc # "off"
    /\ today < StartDay + MaxAdvance
    /\ today' = today + 1
    /\ UNCHANGED <<store, market, pc, continuous, force, idx, success_count,
                   attempted, provider_failed, store_failed, batch_result, last, cleanVars, labelVars, featVars, orderVars,
                   batchVars, retryVars, textVars>>

(***************************************************************************)
(* data/data_cleaner.py : main over the ticker list                        *)
(***************************************************************************)
\* the frame with its rows under the given symbol
OfSymbol(df, symbol) == [i \in 1..Len(df) |-> [df[i] EXCEPT !.symbol = symbol]]

\* what stocks may hold for a symbol: nothing, one bar with a zero open, one
\* valid bar, twenty valid bars whose close rises once
BatchFrames ==
    { <<>>,
      <<Bar(1, 0, 2, 1, 1, 50)>>,
      <<CleanBar(1, 100)>>,
      StepFrame(20, 10, 20, 100, 105, 105) }

\* the call of the loop body that raises, if any
BatchFaults == {"none", "check", "load", "clean", "feature", "save"}

\* load_stock_data: the symbol's stocks rows, the exception passed on
load_stock_data(symbol) == stocks_of[symbol]

\* the body of main's loop for one symbol: what it does, and the table after
\* it.  check_existing_cleaned_data answers False when its query raises; the
\* four steps pass their exception on to main's handler.
clean_symbol(symbol, fault, table) ==
    LET exists   == fault # "check" /\ check_existing_cleaned_data(symbol, table)
        df       == load_stock_data(symbol)
        df_c     == clean_stock_data(df)
        df_f     == engineer_features(df_c)
    IN  IF ~args_force /\ exists THEN [did |-> "exists", table |-> table]
        ELSE IF fault = "load" THEN [did |-> "error", table |-> table]
        ELSE IF df = <<>> THEN [did |-> "no_data", table |-> table]
        ELSE IF fault = "clean" THEN [did |-> "error", table |-> table]
        ELSE IF df_c = <<>> THEN [did |-> "no_rows", table |-> table]
        ELSE IF fault \in {"feature", "save"} THEN [did |-> "error", table |-> table]
        ELSE [did |-> "saved", table |-> save_cleaned_data(df_f, table)]

BatchIdle ==
    /\ stocks_of = <<>> /\ args_force = FALSE /\ bpos = 0 /\ taken = <<>>
    /\ bstage = "off" /\ bruns = 0

BatchInit ==
    /\ \E f \in [TickerSet -> BatchFrames] :
         stocks_of = [t \in TickerSet |-> OfSymbol(f[t], t)]
    /\ args_force = FALSE /\ bpos = 0 /\ taken = <<>>
    /\ bstage = "idle" /\ bruns = 0

\* python data_cleaner.py --all [--force]
StartClean(f) ==
    /\ bstage \in {"idle", "exit0", "exit1"} /\ bruns < MaxRuns
    /\ bstage' = "running" /\ args_force' = f /\ bpos' = 0 /\ taken' = <<>>
    /\ bruns' = bruns + 1
    /\ UNCHANGED <<stocks_of, cleanVars, labelVars, featVars, orderVars, syncVars,
                   retryVars, textVars>>

\* one iteration of main's loop; an exception leaves the loop for main's
\* handler, which logs it and calls sys.exit(1)
CleanStep(fault) ==
    /\ bstage = "running" /\ bpos < Len(Tickers)
    /\ \E r \in {clean_symbol(Tickers[bpos + 1],
                              fault,
                              stocks_clean)} :
         /\ taken' = Append(taken, [symbol |-> Tickers[bpos + 1], did |-> r.did])
         /\ stocks_clean' = r.table
         /\ bstage' = IF r.did = "error" THEN "exit1" ELSE "running"
    /\ bpos' = bpos + 1
    /\ UNCHANGED <<stocks_of, args_force, bruns, df_clean, df_feat, fstage, runs,
                   cleanVars, labelVars, orderVars, syncVars, retryVars, textVars>>

\* the loop is through the list: main returns
CleanEnd ==
    /\ bstage = "running" /\ bpos = Len(Tickers)
    /\ bstage' = "exit0"
    /\ UNCHANGED <<stocks_of, args_force, bpos, taken, bruns, cleanVars, labelVars,
                   featVars, orderVars, syncVars, retryVars, textVars>>

(***************************************************************************)
(* robust_data_collector.py : run_command_with_retry                       *)
(***************************************************************************)
\* how one subprocess.run may end: exit code 0, another exit code, an exception
Outcomes == {"exit0", "nonzero", "exception"}

\* the delay arguments the callers pass (and the default)
Delays == {5, 10}

\* random.uniform(1, 3), to the whole second
Jitters == {1, 2, 3}

\* attempt < max_retries + 1, in place of attempt < max_retries - 1
retry_left_after_last(att, retries) == att < retries + 1

\* attempt < max_retries - 1: another attempt follows this one
retry_left(att, retries) == att < retries - 1

\* wait_time = delay * (attempt + 1) + random.uniform(1, 3)
wait_time(d, att, jitter) == d * (att + 1) + jitter

RetryIdle ==
    /\ max_retries = 0 /\ delay = 0 /\ attempt = 0 /\ results = <<>>
    /\ waits = <<>> /\ rpc = "off" /\ returned = "none"

RetryInit ==
    /\ max_retries \in 0..MaxRetries
    /\ delay \in Delays
    /\ attempt = 0 /\ results = <<>> /\ waits = <<>>
    /\ rpc = "called" /\ returned = "none"

\* one pass of the loop body: subprocess.run, then the return of True, the
\* start of the wait before the next attempt, or the return of False
RunAttempt(outcome, jitter) ==
    /\ rpc = "called" /\ attempt < max_retries
    /\ results' = Append(results, outcome)
    /\ IF outcome = "exit0"
       THEN rpc' = "returned" /\ returned' = "True" /\ UNCHANGED waits
       ELSE IF retry_left(attempt, max_retries)
       THEN /\ waits' = Append(waits, [after |-> attempt + 1,
                                       wait_time |-> wait_time(delay, attempt, jitter)])
            /\ rpc' = "sleeping" /\ UNCHANGED returned
       ELSE rpc' = "returned" /\ returned' = "False" /\ UNCHANGED waits
    /\ UNCHANGED <<max_retries, delay, attempt, cleanVars, labelVars, featVars,
                   orderVars, syncVars, batchVars, textVars>>

\* time.sleep(wait_time) is over: the loop goes to its next attempt
SleepEnd ==
    /\ rpc = "sleeping"
    /\ attempt' = attempt + 1
    /\ rpc' = "called"
    /\ UNCHANGED <<max_retries, delay, results, waits, returned, cleanVars,
                   labelVars, featVars, orderVars, syncVars, batchVars, textVars>>

\* range(max_retries) is used up without a return inside the loop
LoopEnd ==
    /\ rpc = "called" /\ attempt >= max_retries
    /\ rpc' = "returned" /\ returned' = "False"
    /\ UNCHANGED <<max_retries, delay, attempt, results, waits, cleanVars,
                   labelVars, featVars, orderVars, syncVars, batchVars, textVars>>

(***************************************************************************)
(* data/news_data_collector.py : clean_headline                            *)
(***************************************************************************)
\* the characters \s matches
Whitespace == {" ", "\t", "\n", "\r"}

\* the characters \w matches, among those of the model
WordChars ==
    {"A", "B", "C", "D", "E", "F", "G", "H", "I", "J", "K", "L", "M",
     "N", "O", "P", "Q", "R", "S", "T", "U", "V", "W", "X", "Y", "Z",
     "a", "b", "c", "d", "e", "f", "g", "h", "i", "j", "k", "l", "m",
     "n", "o", "p", "q", "r", "s", "t", "u", "v", "w", "x", "y", "z",
     "0", "1", "2", "3", "4", "5", "6", "7", "8", "9", "_"}

\* [\w\s\-.,!?]
KeptChars == WordChars \cup Whitespace \cup {"-", ".", ",", "!", "?"}

\* str.strip(): leading and trailing whitespace removed
RECURSIVE lstrip(_)
lstrip(h) ==
    IF h # <<>> /\ Head(h) \in Whitespace THEN lstrip(Tail(h)) ELSE h

RECURSIVE rstrip(_)
rstrip(h) ==
    IF h # <<>> /\ h[Len(h)] \in Whitespace
    THEN rstrip(SubSeq(h, 1, Len(h) - 1))
    ELSE h

strip(h) == rstrip(lstrip(h))

\* re.sub(r'\s+', ' ', h): every maximal run of whitespace becomes one space
collapse(h) ==
    SelectSeq([i \in 1..Len(h) |->
                  IF h[i] \notin Whitespace THEN h[i]
                  ELSE IF i > 1 /\ h[i - 1] \in Whitespace THEN ""
                  ELSE " "],
              LAMBDA c : c # "")

\* the special characters are kept
remove_special_none(h) == h

\* re.sub(r'[^\w\s\-.,!?]', '', h)
remove_special(h) == SelectSeq(h, LAMBDA c : c \in KeptChars)

\* if len(headline) > 500
HEADLINE_LIMIT == 500

\* headline[:497] + "..." past HEADLINE_LIMIT characters
limit(h) ==
    IF Len(h) > HEADLINE_LIMIT
    THEN SubSeq(h, 1, HEADLINE_LIMIT - 3) \o <<".", ".", ".">>
    ELSE h

clean_headline(h) == limit(remove_special(collapse(strip(h))))

\* the characters short headlines are drawn from
TextChars == {"A", "5", " ", "\t", "%", "-"}

\* '  Apple   Stock   Rises  5%  Today  '
TestHeadline ==
    <<" ", " ", "A", "p", "p", "l", "e", " ", " ", " ", "S", "t", "o",
      "c", "k", " ", " ", " ", "R", "i", "s", "e", "s", " ", " ", "5",
      "%", " ", " ", "T", "o", "d", "a", "y", " ", " ">>

\* "A" * 600
LongHeadline == [i \in 1..600 |-> "A"]

TextIdle == headline = <<>> /\ cleaned = <<>> /\ tstage = "off"

TextInit ==
    /\ \/ \E k \in 0..MaxHeadline : headline \in [1..k -> TextChars]
       \/ headline \in {TestHeadline, LongHeadline}
    /\ cleaned = <<>>
    /\ tstage = "raw"

CleanHeadline ==
    /\ tstage = "raw"
    /\ cleaned' = clean_headline(headline)
    /\ tstage' = "cleaned"
    /\ UNCHANGED <<headline, cleanVars, labelVars, featVars, orderVars, syncVars,
                   batchVars, retryVars>>

LabelIdle ==
    /\ feat_df = <<>> /\ days_ahead = 0 /\ labeled_df = <<>> /\ lstage = "off"
    /\ trained = "no"

SyncIdle ==
    /\ store = EmptyBag /\ today = 0 /\ market = {} /\ pc = "off"
    /\ continuous = FALSE /\ force = FALSE /\ idx = 0 /\ success_count = 0
    /\ attempted = <<>> /\ provider_failed = 0 /\ store_failed = FALSE
    /\ batch_result = "none"
    /\ last = <<>>

InitClean == CleanInit /\ LabelIdle /\ FeatIdle /\ OrderIdle /\ SyncIdle
    /\ BatchIdle /\ RetryIdle /\ TextIdle

NextClean == Clean \/ CleanAgain

SpecClean == InitClean /\ [][NextClean]_vars

InitLabel == CleanIdle /\ LabelInit /\ FeatIdle /\ OrderIdle /\ SyncIdle
    /\ BatchIdle /\ RetryIdle /\ TextIdle

NextLabel == Label \/ Train

SpecLabel == InitLabel /\ [][NextLabel]_vars

InitFeat == CleanIdle /\ LabelIdle /\ FeatInit /\ OrderIdle /\ SyncIdle
    /\ BatchIdle /\ RetryIdle /\ TextIdle

NextFeat == Engineer \/ Save \/ \E f \in BOOLEAN : Rerun(f)

SpecFeat == InitFeat /\ [][NextFeat]_vars

InitOrder == CleanIdle /\ LabelIdle /\ FeatIdle /\ OrderInit /\ SyncIdle
    /\ BatchIdle /\ RetryIdle /\ TextIdle

NextOrder == FindOrder

SpecOrder == InitOrder /\ [][NextOrder]_vars

Init == CleanIdle /\ LabelIdle /\ FeatIdle /\ OrderIdle /\ SyncInit
    /\ BatchIdle /\ RetryIdle /\ TextIdle

Next ==
    \/ \E s \in TickerSet, f \in BOOLEAN, env \in Envs : UpdateSymbol(s, f, env)
    \/ \E f \in BOOLEAN : StartAll(f)
    \/ StartContinuous
    \/ \E env \in Envs : BatchStep(env)
    \/ BatchEnd
    \/ Wake
    \/ Interrupt
    \/ Tick

Spec == Init /\ [][Next]_vars

InitBatch == CleanIdle /\ LabelIdle /\ FeatIdle /\ OrderIdle /\ SyncIdle
    /\ BatchInit /\ RetryIdle /\ TextIdle

NextBatch ==
    \/ \E f \in BOOLEAN : StartClean(f)
    \/ \E fault \in BatchFaults : CleanStep(fault)
    \/ CleanEnd

SpecBatch == InitBatch /\ [][NextBatch]_vars

InitRetry == CleanIdle /\ LabelIdle /\ FeatIdle /\ OrderIdle /\ SyncIdle
    /\ BatchIdle /\ RetryInit /\ TextIdle

NextRetry ==
    \/ \E outcome \in Outcomes, jitter \in Jitters : RunAttempt(outcome, jitter)
    \/ SleepEnd
    \/ LoopEnd

\* every subprocess.run and every time.sleep comes to an end
SpecRetry == InitRetry /\ [][NextRetry]_vars /\ WF_vars(NextRetry)

InitText == CleanIdle /\ LabelIdle /\ FeatIdle /\ OrderIdle /\ SyncIdle
    /\ BatchIdle /\ RetryIdle /\ TextInit

NextText == CleanHeadline

SpecText == InitText /\ [][NextText]_vars

(***************************************************************************)
(* Claims about the cleaning stage (SpecClean).                            *)
(***************************************************************************)
ValidBar(r) ==
    /\ \A c \in 1..Len(price_columns) :
          ~isnull(r[price_columns[c]]) /\ r[price_columns[c]] > 0
    /\ r.high >= r.low /\ r.high >= r.open /\ r.high >= r.close

HasMissingPrice(df) ==
    \E i \in 1..Len(df) : \E c \in 1..Len(price_columns) : isnull(df[i][price_columns[c]])

HasNonPositivePrice(df) ==
    \E i \in 1..Len(df) : \E c \in 1..Len(price_columns) : le0(df[i][price_columns[c]])

HasDuplicateDate(df) ==
    \E i, j \in 1..Len(df) : i < j /\ df[i].symbol = df[j].symbol /\ df[i].date = df[j].date

IsUnsorted(df) ==
    \E i, j \in 1..Len(df) : i < j /\ df[i].date > df[j].date

\* C1: every row of clean_stock_data's output has open, high, low and close
\* present and > 0, and high >= low, high >= open, high >= close.
C1_CleanedBarsValid ==
    cstage \in {"cleaned", "recleaned"} =>
        \A i \in 1..Len(cleaned_df) : ValidBar(cleaned_df[i])

\* C1 witness: a raw frame with a missing price and a zero or negative price was
\* cleaned, rows were rejected and a row survived.
C1_Witness ==
    /\ cstage = "cleaned"
    /\ HasMissingPrice(raw_df) /\ HasNonPositivePrice(raw_df)
    /\ Len(cleaned_df) >= 1 /\ Len(cleaned_df) < Len(raw_df)

\* C2: cleaning is idempotent: clean_stock_data on its own output returns the
\* same rows, in the same order, with the same field values.
C2_CleanIdempotent ==
    cstage = "recleaned" => recleaned_df = cleaned_df

\* C2 witness: a raw frame with a duplicate date, out-of-order dates and a missing
\* value was cleaned twice; the first pass changed it and left rows.
C2_Witness ==
    /\ cstage = "recleaned"
    /\ HasDuplicateDate(raw_df) /\ IsUnsorted(raw_df) /\ has_missing(raw_df)
    /\ cleaned_df # raw_df /\ Len(cleaned_df) >= 1

\* C4: the output of clean_stock_data for one symbol has strictly increasing
\* dates (ascending order, no two rows on one date).
C4_StrictlyIncreasingDates ==
    cstage \in {"cleaned", "recleaned"} =>
        \A i \in 1..(Len(cleaned_df) - 1) : cleaned_df[i].date < cleaned_df[i+1].date

\* C4 witness: a raw frame with a duplicate date and out-of-order dates was
\* cleaned to at least two rows.
C4_Witness ==
    /\ cstage = "cleaned"
    /\ HasDuplicateDate(raw_df) /\ IsUnsorted(raw_df)
    /\ Len(cleaned_df) >= 2

\* the raw frame with one row per date, in date order: what the fill works on
Ordered == sort_values(drop_duplicates(raw_df))

\* the position in Ordered of the row dated d
At(d) == CHOOSE i \in 1..Len(Ordered) : Ordered[i].date = d

\* j is the nearest row before i in Ordered that is a valid bar as it stands
PriorValid(j, i) ==
    /\ j < i /\ ValidBar(Ordered[j])
    /\ \A m \in (j + 1)..(i - 1) : ~ValidBar(Ordered[m])

\* C22: clean_stock_data fills each missing open/high/low/close with that
\* field's value from the nearest earlier-dated bar that is itself valid, and a
\* missing volume with 0; no filled value comes from a bar cleaning rejects.
C22_FillFromPriorValid ==
    cstage = "cleaned" =>
        \A k \in 1..Len(cleaned_df) :
            LET row == cleaned_df[k]
                i == At(row.date)
            IN  /\ \A c \in 1..Len(price_columns) :
                      isnull(Ordered[i][price_columns[c]]) =>
                         \E j \in 1..Len(Ordered) :
                            /\ PriorValid(j, i)
                            /\ row[price_columns[c]] = Ordered[j][price_columns[c]]
                /\ isnull(Ordered[i].volume) => row.volume = 0

\* a bar with a non-positive price or with its high below its low, open or close
InvalidBar(r) ==
    \/ \E c \in 1..Len(price_columns) :
          ~isnull(r[price_columns[c]]) /\ r[price_columns[c]] <= 0
    \/ \E c \in {"low", "open", "close"} :
          ~isnull(r.high) /\ ~isnull(r[c]) /\ r.high < r[c]

\* row i of the raw frame is the first one, in input order, of its date
FirstOfDate(i) == \A j \in 1..(i - 1) : raw_df[j].date # raw_df[i].date

\* C28: duplicates are resolved before validation, keeping for each (symbol,
\* date) the first row in input order: a cleaned row carries the values of the
\* first raw row of its date, and when that first row is invalid the output has
\* no row for the date, even if a later duplicate of it is valid.
C28_FirstDuplicateDecides ==
    cstage = "cleaned" =>
        \A i \in 1..Len(raw_df) : FirstOfDate(i) =>
            /\ InvalidBar(raw_df[i]) =>
                  \A k \in 1..Len(cleaned_df) : cleaned_df[k].date # raw_df[i].date
            /\ \A k \in 1..Len(cleaned_df) :
                  cleaned_df[k].date = raw_df[i].date =>
                     \A c \in 1..Len(value_columns) :
                        ~isnull(raw_df[i][value_columns[c]]) =>
                           cleaned_df[k][value_columns[c]] = raw_df[i][value_columns[c]]

\* C28 witness: a date whose first raw row is invalid and whose later duplicate
\* is a valid bar has no row in the cleaned frame, while another date has one.
C28_Witness ==
    /\ cstage = "cleaned"
    /\ \E i \in 1..Len(raw_df), j \in 1..Len(raw_df) :
          /\ i < j /\ FirstOfDate(i) /\ raw_df[j].date = raw_df[i].date
          /\ InvalidBar(raw_df[i]) /\ ValidBar(raw_df[j])
          /\ \A k \in 1..Len(cleaned_df) : cleaned_df[k].date # raw_df[i].date
    /\ cleaned_df # <<>>

(***************************************************************************)
(* Claims about the label constructor (SpecLabel).                         *)
(***************************************************************************)
\* the rows of the labeled frame that carry input row i's index
LabeledAt(i) == {k \in 1..Len(labeled_df) : labeled_df[k].index = i}

\* C10: for every input row i with a close days_ahead rows below it, the labeled
\* row of i has future_price = close[i+H], price_change_pct =
\* (close[i+H] - close[i]) / close[i] * 100 and target = 1 exactly when that
\* percentage is strictly above 2; closes [100, 102, 105, 98, 110] with H = 2
\* give target 1 for the first row and 0 for the second.
C10_TargetDefinition ==
    lstage = "labeled" =>
        /\ \A i \in 1..Len(feat_df) :
              i + days_ahead <= Len(feat_df) =>
                /\ Cardinality(LabeledAt(i)) = 1
                /\ \A k \in LabeledAt(i) :
                     LET r == labeled_df[k]
                         c == feat_df[i].close
                         f == feat_df[i + days_ahead].close
                     IN  /\ r.future_price = f
                         /\ ~r.price_change_pct.nan
                         /\ r.price_change_pct.num * c
                              = (f - c) * 100 * r.price_change_pct.den
                         /\ r.target = IF (f - c) * 100 > 2 * c THEN 1 ELSE 0
        /\ (feat_df = Frame(ExampleCloses) /\ days_ahead = 2) =>
              /\ \A k \in LabeledAt(1) : labeled_df[k].target = 1
              /\ \A k \in LabeledAt(2) : labeled_df[k].target = 0

\* C10 witness: the documented example has been labeled: 5.0 % gives target 1
\* for the first row, about -3.92 % gives target 0 for the second.
C10_Witness ==
    /\ lstage = "labeled"
    /\ feat_df = Frame(ExampleCloses) /\ days_ahead = 2
    /\ labeled_df[1].index = 1 /\ labeled_df[1].target = 1
    /\ labeled_df[1].price_change_pct = Ratio(500, 100)
    /\ labeled_df[2].index = 2 /\ labeled_df[2].target = 0
    /\ labeled_df[2].price_change_pct = Ratio(-400, 102)

\* C11: the labeled frame leaves out the last days_ahead rows of its input: it
\* has max(n - H, 0) rows and keeps no row whose future price is undefined.
C11_LastRowsExcluded ==
    lstage = "labeled" =>
        /\ Len(labeled_df) = (IF Len(feat_df) > days_ahead
                                THEN Len(feat_df) - days_ahead ELSE 0)
        /\ \A k \in 1..Len(labeled_df) : ~isnull(labeled_df[k].future_price)

\* the labels of the labeled frame hold only one class (all 0 or all 1)
SingleClass ==
    /\ labeled_df # <<>>
    /\ \A i \in 1..Len(labeled_df) : labeled_df[i].target = labeled_df[1].target

\* C19: when the labels produced for a symbol hold only one class, the
\* training pipeline surfaces a distinct error for that condition instead of
\* going on to the stratified split and the training.
C19_SingleClassError ==
    (lstage = "trained" /\ SingleClass) => trained = "single_class_error"

(***************************************************************************)
(* Claims about the feature engine (SpecFeat).                             *)
(***************************************************************************)
\* the float x is the finite number k
Is(x, k) == ~x.nan /\ x.den > 0 /\ x.num = k * x.den

\* the closes of the rows lo..hi of the input never decrease from one row to the next
NoDecrease(lo, hi) ==
    \A j \in lo..hi : j >= 2 => df_clean[j].close >= df_clean[j - 1].close

\* C12: at every row whose trailing 14-period window holds no close-to-close
\* decrease (average loss 0), whatever the average gain, rsi is 100 and never
\* absent.
C12_NoLossGivesRsi100 ==
    fstage = "engineered" =>
        \A i \in RSI_WINDOW..Len(df_clean) :
            NoDecrease(i - RSI_WINDOW + 1, i) => Is(df_feat[i].rsi, 100)

\* C13: every rsi value that engineer_features defines lies in [0, 100].
C13_RsiInRange ==
    fstage = "engineered" =>
        \A i \in 1..Len(df_feat) :
            LET rsi == df_feat[i].rsi
            IN  ~rsi.nan => /\ rsi.den > 0
                            /\ 0 <= rsi.num
                            /\ rsi.num <= 100 * rsi.den

\* C13 witness: an engineered frame with an rsi strictly between 0 and 100 (a
\* window with a gain and a loss), one equal to 0 and one equal to 100.
C13_Witness ==
    /\ fstage = "engineered"
    /\ \E i \in 1..Len(df_feat) :
          LET rsi == df_feat[i].rsi
          IN  ~rsi.nan /\ 0 < rsi.num /\ rsi.num < 100 * rsi.den
    /\ \E i \in 1..Len(df_feat) : Is(df_feat[i].rsi, 0)
    /\ \E i \in 1..Len(df_feat) : Is(df_feat[i].rsi, 100)

\* the moving-average column of window w
ma_(row, w) ==
    CASE w = 5 -> row.ma_5 [] w = 10 -> row.ma_10 [] w = 20 -> row.ma_20

\* C14: for each window W in {5, 10, 20} and each row i (0-based), ma_W[i] is
\* absent when i < W - 1 and otherwise is the arithmetic mean of
\* close[i-W+1..i].
C14_MovingAverages ==
    /\ {MOVING_AVERAGE_PERIODS[k] : k \in 1..Len(MOVING_AVERAGE_PERIODS)} = {5, 10, 20}
    /\ fstage = "engineered" =>
        \A w \in {5, 10, 20} : \A i \in 1..Len(df_clean) :
            LET ma == ma_(df_feat[i], w)
            IN  IF i - 1 < w - 1 THEN ma.nan
                ELSE /\ ~ma.nan /\ ma.den > 0
                     /\ ma.num * w
                          = SumRange(Column(df_clean, "close"), i - w + 1, i) * ma.den

\* C14 witness: a frame of at least 21 bars with three close levels is
\* engineered: ma_20 is absent on row 18 (0-based), defined on rows 19 and 20
\* with different values, and ma_5 is absent on row 3 and defined on row 4.
C14_Witness ==
    /\ fstage = "engineered"
    /\ Len(df_feat) >= 21
    /\ df_feat[19].ma_20.nan /\ ~df_feat[20].ma_20.nan /\ ~df_feat[21].ma_20.nan
    /\ df_feat[20].ma_20 # df_feat[21].ma_20
    /\ df_feat[4].ma_5.nan /\ ~df_feat[5].ma_5.nan
    /\ df_feat[9].ma_10.nan /\ ~df_feat[10].ma_10.nan

\* C15: daily_return[0] is absent and for every i >= 1 daily_return[i] is
\* (close[i] - close[i-1]) / close[i-1] * 100.
C15_DailyReturn ==
    fstage = "engineered" =>
        \A i \in 1..Len(df_clean) :
            LET r == df_feat[i].daily_return
            IN  IF i = 1 THEN r.nan
                ELSE /\ ~r.nan /\ r.den > 0
                     /\ r.num * df_clean[i - 1].close
                          = (df_clean[i].close - df_clean[i - 1].close) * 100 * r.den

\* C15 witness: an engineered frame whose second row rose (100 -> 105, a
\* return of 5 %) and whose later rows hold a fall.
C15_Witness ==
    /\ fstage = "engineered"
    /\ Len(df_feat) >= 3
    /\ df_feat[1].daily_return.nan
    /\ df_clean[1].close = 100 /\ df_clean[2].close = 105
    /\ Is(df_feat[2].daily_return, 5)
    /\ \E i \in 3..Len(df_feat) : df_feat[i].daily_return.num < 0

\* the columns engineer_features receives
bar_columns == <<"symbol", "date", "open", "high", "low", "close", "volume">>

\* row i (1-based) of the output repeats row i of the input
SameBar(i) ==
    \A c \in 1..Len(bar_columns) : df_feat[i][bar_columns[c]] = df_clean[i][bar_columns[c]]

\* the features whose history does not reach back far enough at row i
\* (1-based) are absent: a W-row window needs W rows, a return needs the row
\* before, a window of W returns or W price changes needs W + 1 rows
AbsentWithoutHistory(i) ==
    LET row == df_feat[i]
    IN  /\ \A w \in {5, 10, 20} : i < w => ma_(row, w).nan
        /\ i < 2 => row.daily_return.nan
        /\ i < 5 => row.volume_ma_5.nan
        /\ i < 5 + 1 => row.volatility_5 = "missing"
        /\ i < 10 + 1 => row.volatility_10 = "missing"
        /\ i < RSI_WINDOW + 1 => row.rsi.nan

\* C23: engineer_features is positional: the output has the rows of the input
\* in the same order with symbol, date, open, high, low, close and volume
\* unchanged, and every feature at a position with insufficient history is
\* absent, never a computed value.
C23_Positional ==
    fstage = "engineered" =>
        /\ Len(df_feat) = Len(df_clean)
        /\ \A i \in 1..Len(df_clean) : SameBar(i) /\ AbsentWithoutHistory(i)

\* the rises and the falls of the close over the rows lo..hi of the input,
\* each row against the row before it (row 1 has none)
RECURSIVE Gains(_, _)
Gains(lo, hi) ==
    IF lo > hi THEN 0
    ELSE Gains(lo, hi - 1)
         + (IF hi >= 2 /\ df_clean[hi].close > df_clean[hi - 1].close
            THEN df_clean[hi].close - df_clean[hi - 1].close ELSE 0)

RECURSIVE Losses(_, _)
Losses(lo, hi) ==
    IF lo > hi THEN 0
    ELSE Losses(lo, hi - 1)
         + (IF hi >= 2 /\ df_clean[hi].close < df_clean[hi - 1].close
            THEN df_clean[hi - 1].close - df_clean[hi].close ELSE 0)

\* C30: the undefined first price change counts as a zero gain and a zero loss,
\* not as absent: rsi is absent on rows 0..12 and computed from row 13 on, at
\* row 13 from the 13 real price changes alone (14-period averages of their
\* gains and losses); from row 13 on it is absent only where the window has
\* neither a gain nor a loss (0 / 0).
C30_FirstChangeCountsAsZero ==
    fstage = "engineered" =>
        \A i \in 1..Len(df_clean) :
            LET rsi == df_feat[i].rsi
                g == Gains(i - RSI_WINDOW + 1, i)
                l == Losses(i - RSI_WINDOW + 1, i)
            IN  IF i < RSI_WINDOW THEN rsi.nan
                ELSE /\ rsi.nan <=> (g = 0 /\ l = 0)
                     /\ ~rsi.nan => /\ rsi.den > 0
                                    /\ rsi.num * (g + l) = 100 * g * rsi.den

\* C30 witness: a frame of exactly 14 bars with a rise and a fall among its 13
\* price changes: rsi is absent on rows 0..12 and strictly between 0 and 100
\* on row 13.
C30_Witness ==
    /\ fstage = "engineered"
    /\ Len(df_feat) = RSI_WINDOW
    /\ \A i \in 1..(RSI_WINDOW - 1) : df_feat[i].rsi.nan
    /\ LET rsi == df_feat[RSI_WINDOW].rsi
       IN  ~rsi.nan /\ 0 < rsi.num /\ rsi.num < 100 * rsi.den

\* stocks_clean holds a row for the bar dated d
Saved(d) == \E row \in BagToSet(stocks_clean) : row.date = d

\* C29: save_cleaned_data persists only rows in which every engineered column
\* is defined: the first 19 bars of a symbol are never written, a symbol with
\* fewer than 20 clean bars writes no rows, and no row whose rsi is absent is
\* written.
C29_OnlyCompleteRowsSaved ==
    fstage = "saved" =>
        /\ \A row \in BagToSet(stocks_clean) :
              \E i \in 20..Len(df_feat) :
                 /\ row.date = df_feat[i].date /\ row.close = df_feat[i].close
                 /\ row.ma_20 = df_feat[i].ma_20
                 /\ row.daily_return = df_feat[i].daily_return
                 /\ Complete(df_feat[i])
        /\ Len(df_clean) < 20 => stocks_clean = EmptyBag
        /\ \A i \in 1..Len(df_feat) : df_feat[i].rsi.nan => ~Saved(df_feat[i].date)

\* C29 witness: a symbol with at least 21 clean bars is saved; the bar of row
\* 19 (0-based) has every moving average but no rsi (a flat window) and is not
\* written, the bar of a later row is.
C29_Witness ==
    /\ fstage = "saved"
    /\ Len(df_feat) >= 21
    /\ ~df_feat[20].ma_20.nan /\ df_feat[20].rsi.nan /\ ~Saved(df_feat[20].date)
    /\ \E i \in 21..Len(df_feat) : Saved(df_feat[i].date)
    /\ \A i \in 1..19 : ~Saved(df_feat[i].date)

\* C24: after any sequence of cleaning runs over a symbol, re-runs with
\* --force included, stocks_clean holds at most one row per (symbol, date).
C24_OneCleanRowPerKey ==
    /\ \A row \in BagToSet(stocks_clean) : CopiesIn(row, stocks_clean) = 1
    /\ \A r1 \in BagToSet(stocks_clean), r2 \in BagToSet(stocks_clean) :
          (r1.symbol = r2.symbol /\ r1.date = r2.date) => r1 = r2

(***************************************************************************)
(* Claims about the ARIMA order selector (SpecOrder).                      *)
(***************************************************************************)
\* every (p, d, q) with 0 <= p <= max_p, 0 <= d <= max_d, 0 <= q <= max_q
Grid == (0..max_p) \X (0..max_d) \X (0..max_q)

\* the orders whose fit succeeds with an AIC below infinity
Fitted == {o \in Grid : ~fits[o].raises /\ ~isnull(fits[o].aic) /\ fits[o].aic < np_inf}

\* a comes no later than b in the iteration order p, then d, then q
LexLE(a, b) ==
    \/ a[1] < b[1]
    \/ a[1] = b[1] /\ a[2] < b[2]
    \/ a[1] = b[1] /\ a[2] = b[2] /\ a[3] <= b[3]

\* C16: find_optimal_arima_order tries every order of the grid once, in the
\* order p, then d, then q, skips the orders whose fit fails, and returns the
\* fitted order with the lowest AIC, the first in iteration order among equal
\* lowest AICs; if only (1,1,1) fits, it returns (1,1,1).
C16_LowestAicFirst ==
    ostage = "searched" =>
        /\ Len(found.tried) = Cardinality(Grid)
        /\ Range(found.tried) = Grid
        /\ \A i \in 1..Len(found.tried), j \in 1..Len(found.tried) :
              i <= j => LexLE(found.tried[i], found.tried[j])
        /\ Fitted # {} =>
              /\ found.ret \in Fitted
              /\ \A o \in Fitted :
                    /\ fits[found.ret].aic <= fits[o].aic
                    /\ fits[o].aic = fits[found.ret].aic => LexLE(found.ret, o)
        /\ (<<1, 1, 1>> \in Grid /\ \A o \in Grid : ~fits[o].raises <=> o = <<1, 1, 1>>)
              => found.ret = <<1, 1, 1>>

\* C16 witness: on the grid up to (1,1,1) two orders fit with the same AIC, a
\* fit with a higher AIC is absent or fails, and the search returned the
\* earlier of the two, which is not the configured default.
C16_Witness ==
    /\ ostage = "searched"
    /\ max_p = 1 /\ max_d = 1 /\ max_q = 1
    /\ \E a \in Fitted, b \in Fitted :
          /\ a # b /\ LexLE(a, b)
          /\ fits[a].aic = fits[b].aic
          /\ found.ret = a /\ a # ARIMA_ORDER
    /\ \E o \in Grid : fits[o].raises

\* C17: when no order of the grid fits with an AIC below infinity (every fit
\* raises, or the fits report inf or NaN), find_optimal_arima_order returns
\* ARIMA_ORDER = (1, 1, 1); it never raises.
C17_DefaultWhenNoneFits ==
    /\ ARIMA_ORDER = <<1, 1, 1>>
    /\ ostage = "searched" =>
          /\ ~found.raised
          /\ Fitted = {} => found.ret = ARIMA_ORDER

\* C17 witness: a grid without (1,1,1) on which one fit reports an infinite AIC
\* and every other fit raises; the search returned (1,1,1).
C17_Witness ==
    /\ ostage = "searched"
    /\ max_p = 0
    /\ \E o \in Grid : ~fits[o].raises /\ fits[o].aic = np_inf
    /\ \E o \in Grid : fits[o].raises
    /\ Fitted = {}
    /\ found.ret = <<1, 1, 1>> /\ found.best_aic = np_inf

(***************************************************************************)
(* Claims about the sync controller (Spec).                                *)
(***************************************************************************)
\* a call of update_stock_data has been made and its latest-date query worked
CallRead == last.symbol # "" /\ ~last.read_failed

\* C3: after any sequence of update_stock_data / update_all_stocks calls the
\* stocks table holds at most one row per (symbol, date).
C3_OneRowPerKey ==
    \A r \in BagToSet(store) :
        /\ CopiesIn(r, store) = 1
        /\ \A q \in BagToSet(store) :
              (q.symbol = r.symbol /\ q.date = r.date) => q = r

C7_BatchCounts ==
    (batch_result = "completed" /\ ~store_failed) =>
        /\ attempted = Tickers
        /\ success_count = NumTickers - provider_failed

\* C8: when the provider answers with no bars, update_stock_data reports success
\* and leaves the table unchanged.
C8_EmptyIsSuccess ==
    (last.symbol # "" /\ last.fetched /\ ~last.provider_failed /\ last.n_fetched = 0)
        => last.ret

\* C9: when continuous_update has been stopped by an interrupt, every ticker of
\* the batch that was in flight has been processed.
C9_InterruptBetweenBatches ==
    (pc = "idle" /\ continuous) => attempted = Tickers

\* C18: a store failure during a sync of a symbol (reading the latest stored
\* date or writing the fetched rows) is fatal for that sync: the call reports
\* failure and writes no rows; a batch around it still attempts every ticker.
C18_StoreFailureFatal ==
    /\ (last.symbol # "" /\ (last.read_failed \/ last.write_failed)) =>
          (~last.ret /\ last.n_written = 0)
    /\ batch_result = "completed" => attempted = Tickers

\* the rows the step added to the stocks table
Added == BagToSet(store' (-) store)

\* C20: a sync of symbol S never removes or changes a row already in the
\* stocks table and leaves the rows of every other symbol untouched: the only
\* change it can make is adding rows whose symbol is S.
C20_SyncOnlyAddsOwnRows ==
    [][store' # store =>
          /\ store \sqsubseteq store'
          /\ \A row \in Added : row.symbol = last'.symbol]_vars

\* C20 witness: the table held rows of the first ticker only, and a sync of
\* the second ticker has added rows: both symbols' rows are in the table.
C20_Witness ==
    /\ last.symbol = Tickers[2] /\ last.ret /\ last.n_written > 0
    /\ \E row \in BagToSet(store) : row.symbol = Tickers[1]
    /\ \E row \in BagToSet(store) : row.symbol = Tickers[2]

\* the stocks table holds the provider's bar of the symbol for day d
Stored(symbol, d) == \E row \in BagToSet(store) : row.symbol = symbol /\ row.date = d

\* C21: after update_stock_data returned success for a symbol that already had
\* stored bars, the store holds every bar the provider holds for that symbol
\* dated after the previous latest stored date and up to the day of the call,
\* however old the previous latest stored date was.
C21_SuccessBringsUpToDate ==
    (last.symbol # "" /\ last.ret /\ last.latest_stored # None) =>
        \A d \in market :
            (last.latest_stored < d /\ d <= last.now) => Stored(last.symbol, d)

(***************************************************************************)
(* Claims about the cleaning batch                                         *)
(***************************************************************************)
\* the loop has taken up the symbol in the running (or last) run
TakenUp(symbol) == \E j \in 1..Len(taken) : taken[j].symbol = symbol

\* C25: in the cleaning batch no single symbol blocks the others: when main
\* has ended, whatever happened to a symbol (no stored data, no rows left after
\* cleaning, an error in its load, clean, feature or save step), every symbol
\* of the list has been taken up.
C25_NoSymbolBlocks ==
    bstage \in {"exit0", "exit1"} => \A i \in 1..Len(Tickers) : TakenUp(Tickers[i])

(***************************************************************************)
(* Claims about run_command_with_retry                                     *)
(***************************************************************************)
Failed(i) == results[i] \in {"nonzero", "exception"}

\* what holds of the attempts and waits made so far, and of the value returned
RetrySafe ==
    /\ Len(results) <= max_retries
    /\ \A i \in 1..Len(results) : results[i] = "exit0" => i = Len(results)
    /\ returned = "True" =>
          rpc = "returned" /\ results # <<>> /\ results[Len(results)] = "exit0"
    /\ returned = "False" =>
          /\ rpc = "returned" /\ Len(results) = max_retries
          /\ \A i \in 1..Len(results) : Failed(i)
    /\ rpc = "returned" => returned \in {"True", "False"}
    /\ \A k \in 1..Len(waits) :
          /\ waits[k].after = k /\ k < max_retries /\ Failed(k)
          /\ rpc = "returned" => k < Len(results)
          /\ k > 1 => waits[k].wait_time > waits[k - 1].wait_time
    /\ rpc = "returned" /\ results # <<>> => Len(waits) = Len(results) - 1

\* C26: run_command_with_retry ends after at most max_retries attempts: it
\* returns True at the first attempt that exits with code 0 and makes no
\* attempt after it, returns False once max_retries attempts have all failed
\* (by a non-zero exit or an exception), and waits, longer each time, only
\* between two attempts, never after the last one.
C26_RetryBounded == [](RetrySafe) /\ <>(rpc = "returned")

\* a third attempt succeeds after two failures and two waits
C26_Witness ==
    /\ rpc = "returned" /\ returned = "True"
    /\ Len(results) = 3 /\ Len(waits) = 2
    /\ results[1] = "nonzero" /\ results[2] = "exception"

(***************************************************************************)
(* Claims about clean_headline                                             *)
(***************************************************************************)
\* at most 500 characters, each a letter, a digit, whitespace or '%'
PlainHeadline ==
    /\ Len(headline) <= HEADLINE_LIMIT
    /\ \A i \in 1..Len(headline) :
          headline[i] \in (WordChars \ {"_"}) \cup Whitespace \cup {"%"}

\* C27: for a headline of at most 500 characters made of letters, digits,
\* spaces and characters such as '%', clean_headline returns the headline
\* with its leading and trailing whitespace removed and every whitespace run
\* collapsed to one space, every other character unchanged.
C27_WhitespaceNormalised ==
    tstage = "cleaned" /\ PlainHeadline => cleaned = collapse(strip(headline))

====
